---- MODULE Spec2Model ----
(***************************************************************************)
(* Model of the duplicate-image tools:                                     *)
(*   file-duplication-check/main.py        DuplicateImageFinder (the scan) *)
(*   file-duplication-check/delete_file.py the prune-by-report script      *)
(* The two programs share no memory; each has its own specification:       *)
(*   Spec       one call of run: collect_image_files, process_images,      *)
(*              print_results                                              *)
(*   PruneSpec  delete_file.py run over a report and a disk, then again    *)
(***************************************************************************)
EXTENDS Integers, Sequences, FiniteSets, Bags, TLC

\* ------------------------------------------------------------------ bounds
\* Longest image_files list handed to process_images.
MaxFiles == 3
\* Largest max_workers tried (1..MaxWorkers).
MaxWorkers == 2
\* Most entries in the report's "duplicates" object.
MaxEntries == 2
\* Longest path list of one report entry.
MaxList == 3
\* Most paths a report names, over all its entries.
MaxPaths == 4

\* ------------------------------------------------------------- the scan's world
\* File paths the walk can hand to the scan.
ScanPaths == {"a.jpg", "b.png", "c.jpg"}
\* Byte contents a file can have; Unreadable stands for a path whose open()
\* or read() raises (missing file, permission error, I/O fault).
Contents == {"bytesX", "bytesY"}
Unreadable == "unreadable"
\* Python's None, the failure tag of calculate_md5.
None == "None"
\* What a future holds when its callable let an exception escape.
Raised == <<"raised">>

Range(s) == {s[i] : i \in DOMAIN s}

\* hashlib.md5(...).hexdigest(): a function of the bytes alone.
hexdigest(content) ==
    CASE content = "bytesX" -> "md5-0f"
      [] content = "bytesY" -> "md5-a3"

VARIABLES
    \* ---- scan (main.py)
    disk,          \* path -> content or Unreadable, fixed during a scan
    image_files,   \* the argument of process_images
    max_workers,   \* self.max_workers
    pc,            \* position of the thread running process_images
    submitted,     \* number of futures created so far
    task,          \* future index -> "unsubmitted" | "queued" | "running" | "finished"
    outcome,       \* future index -> what the future holds once finished
    yielded,       \* futures as_completed has handed out
    cur,           \* (md5_value, file_path) unpacked at line 101
    consumed,      \* every tuple unpacked at line 101, in order
    md5_dict,      \* self.md5_dict
    lock,          \* self.lock: "free" or the holder
    completed,     \* the local counter of process_images
    failure_log,   \* paths named by the "MD5 failed" console lines
    duplicates,    \* what print_results got from find_duplicates
    sorted_md5_list, \* what print_results got from get_sorted_md5_list
    open_files,    \* futures whose thread holds the file open (line 34)
    worker_at,     \* future index -> where its thread is in calculate_md5
    unprintable,   \* paths sys.stdout cannot encode: print raises on them
    directories,   \* the argument of run
    walk,          \* the image paths os.walk finds under the directories
    \* ---- prune (delete_file.py)
    fs,            \* path -> "file" | "locked" | "absent"
    data_kind,     \* shape of the JSON document
    entries,       \* data["duplicates"].items(), in order
    ppc,           \* position of the script
    ei,            \* index of the current entry
    fj,            \* index of file_to_delete in file_list
    kept_files_data,
    files_deleted_count,
    processed_md5_count,
    removed,       \* paths os.remove has removed, in order
    console,       \* per-path console lines of the deletion loop
    new_json_structure,
    first_file_path, \* the path designated as retained (line 34)
    run,           \* 1 for the first run of the script, 2 for a second one
    fs_start,      \* the disk as the current run found it
    first_run,     \* what the first run left: report, disk, deletions
    alias,         \* how the two paths relate on disk
    unprintable_listed, \* listed paths sys.stdout cannot encode
    unprintable_keys \* entries whose key sys.stdout cannot encode

scanVars == <<disk, image_files, max_workers, pc, submitted, task, outcome,
              yielded, cur, consumed, md5_dict, lock, completed, failure_log,
              duplicates, sorted_md5_list, open_files, worker_at, unprintable,
              directories, walk>>
pruneVars == <<fs, data_kind, entries, ppc, ei, fj, kept_files_data,
               files_deleted_count, processed_md5_count, removed, console,
               new_json_structure, first_file_path, run, fs_start, first_run,
               alias, unprintable_listed, unprintable_keys>>
vars == <<scanVars, pruneVars>>

EmptyMap == [k \in {} |-> <<>>]

\* ------------------------------------------------------------ main.py: helpers
\* print() of a text naming the path: sys.stdout encodes it with
\* errors='strict' and raises UnicodeEncodeError on a name it cannot encode
\* (os.walk hands out undecodable file names as lone surrogates).
Printable(file_path) == file_path \notin unprintable

\* Directory names run can be given; the second is a name sys.stdout cannot
\* encode (a lone surrogate, as os.fsdecode yields for undecodable bytes).
Directories == {"imgs", "imgs_udc80"}
PrintableDir(directory) == directory # "imgs_udc80"

\* calculate_md5: (hexdigest, path), or (None, path) when the try block
\* raised; when the print of line 40 raises in its turn, the exception
\* leaves calculate_md5 and the future holds it.
calculate_md5(file_path) ==
    IF disk[file_path] = Unreadable
    THEN (IF Printable(file_path) THEN <<None, file_path>> ELSE Raised)
    ELSE <<hexdigest(disk[file_path]), file_path>>

\* Line 40: the except clause prints one line naming the path.
LogFailure(log, file_path) ==
    IF Printable(file_path) THEN Append(log, file_path) ELSE log

\* The test of line 103 always taken.
ShouldAppend_always(md5_value) == TRUE

\* `if md5_value:` (line 103): None is falsy, a hex digest is not.
ShouldAppend(md5_value) == md5_value # None

\* A group append that replaces the list instead of extending it.
GroupAppend_overwrite(d, md5_value, file_path) ==
    [k \in DOMAIN d \cup {md5_value} |->
        IF k = md5_value THEN <<file_path>> ELSE d[k]]

\* A group append that stores the path twice.
GroupAppend_twice(d, md5_value, file_path) ==
    [k \in DOMAIN d \cup {md5_value} |->
        IF k = md5_value
        THEN (IF k \in DOMAIN d THEN d[k] ELSE <<>>) \o <<file_path, file_path>>
        ELSE d[k]]

\* A group insert at the front of the list instead of its end.
GroupAppend_front(d, md5_value, file_path) ==
    [k \in DOMAIN d \cup {md5_value} |->
        IF k = md5_value
        THEN <<file_path>> \o (IF k \in DOMAIN d THEN d[k] ELSE <<>>)
        ELSE d[k]]

\* self.md5_dict[md5_value].append(file_path) on a defaultdict(list).
GroupAppend(d, md5_value, file_path) ==
    [k \in DOMAIN d \cup {md5_value} |->
        IF k = md5_value
        THEN Append(IF k \in DOMAIN d THEN d[k] ELSE <<>>, file_path)
        ELSE d[k]]

\* find_duplicates keeping the single-member groups too.
find_duplicates_ge1(d) ==
    [k \in {m \in DOMAIN d : Len(d[m]) >= 1} |-> d[k]]

\* find_duplicates: the entries of md5_dict with more than one path.
find_duplicates(d) ==
    [k \in {m \in DOMAIN d : Len(d[m]) > 1} |-> d[k]]

\* Lexicographic order of the fingerprints that hexdigest can produce.
Md5Rank(k) ==
    CASE k = "md5-0f" -> 1
      [] k = "md5-a3" -> 2
      [] OTHER -> 3

RECURSIVE SortedItems(_, _)
SortedItems(d, keys) ==
    IF keys = {} THEN <<>>
    ELSE LET m == CHOOSE k \in keys : \A o \in keys : Md5Rank(k) <= Md5Rank(o)
         IN <<(<<m, d[m]>>)>> \o SortedItems(d, keys \ {m})

\* The items in descending order of their keys.
get_sorted_md5_list_desc(d) ==
    LET asc == SortedItems(d, DOMAIN d)
    IN [n \in 1..Len(asc) |-> asc[Len(asc) + 1 - n]]

\* get_sorted_md5_list: sorted(self.md5_dict.items(), key=lambda x: x[0]).
get_sorted_md5_list(d) == SortedItems(d, DOMAIN d)

Futures == 1..Len(image_files)
NumRunning == Cardinality({i \in 1..submitted : task[i] = "running"})

\* ------------------------------------------------------------ main.py: Init
\* The scan treats a path as an opaque name: only the content behind it
\* matters. Lists that differ by a renaming of the paths behave alike, so
\* one list per renaming class is taken: a path appears for the first time
\* only after every path before it in the order a.jpg, b.png, c.jpg.
PathRank(p) ==
    CASE p = "a.jpg" -> 1
      [] p = "b.png" -> 2
      [] p = "c.jpg" -> 3

FirstUseInOrder(files) ==
    \A i \in DOMAIN files :
        \A p \in ScanPaths :
            PathRank(p) < PathRank(files[i]) =>
                \E j \in 1..(i - 1) : files[j] = p

\* The first path of the list that has readable content.
FirstReadable(files, d) ==
    LET readable == {i \in DOMAIN files : d[files[i]] # Unreadable}
    IN IF readable = {} THEN None
       ELSE files[CHOOSE i \in readable : \A j \in readable : i <= j]

ScanFileLists ==
    {files \in UNION {[1..n -> ScanPaths] : n \in 0..MaxFiles} :
        FirstUseInOrder(files)}

ScanInit ==
    /\ disk \in [ScanPaths -> Contents \cup {Unreadable}]
    \* run is given one directory; further directories only lengthen the
    \* walk, and the first name that cannot be printed ends the run
    /\ directories \in {<<d>> : d \in Directories}
    /\ walk \in ScanFileLists
    \* a path the walk does not find is never opened: its content is fixed
    /\ \A p \in ScanPaths \ Range(walk) : disk[p] = Unreadable
    /\ max_workers \in 1..MaxWorkers
    \* of the file paths only those the walk finds can ever be printed; the
    \* name of a readable file is printed by print_results alone, which
    \* stops at the first name it cannot print: the first readable path of
    \* the list stands for whichever readable paths have such a name
    /\ unprintable \in SUBSET Range(walk)
    /\ \A p \in unprintable : disk[p] # Unreadable => p = FirstReadable(walk, disk)
    /\ image_files = <<>>
    /\ pc = "collect"
    /\ submitted = 0
    /\ task = <<>>
    /\ outcome = <<>>
    /\ yielded = {}
    /\ cur = <<None, None>>
    /\ consumed = <<>>
    /\ md5_dict = EmptyMap
    /\ lock = "free"
    /\ completed = 0
    /\ failure_log = <<>>
    /\ duplicates = EmptyMap
    /\ sorted_md5_list = <<>>
    /\ open_files = {}
    /\ worker_at = <<>>

ScanIdle ==
    /\ disk = [p \in ScanPaths |-> Unreadable]
    /\ image_files = <<>>
    /\ max_workers = 1
    /\ pc = "idle"
    /\ submitted = 0
    /\ task = <<>>
    /\ outcome = <<>>
    /\ yielded = {}
    /\ cur = <<None, None>>
    /\ consumed = <<>>
    /\ md5_dict = EmptyMap
    /\ lock = "free"
    /\ completed = 0
    /\ failure_log = <<>>
    /\ duplicates = EmptyMap
    /\ sorted_md5_list = <<>>
    /\ open_files = {}
    /\ worker_at = <<>>
    /\ unprintable = {}
    /\ directories = <<>>
    /\ walk = <<>>

PruneIdle ==
    /\ fs = [p \in {} |-> "absent"]
    /\ data_kind = "none"
    /\ entries = <<>>
    /\ ppc = "idle"
    /\ ei = 0
    /\ fj = 0
    /\ kept_files_data = EmptyMap
    /\ files_deleted_count = 0
    /\ processed_md5_count = 0
    /\ removed = <<>>
    /\ console = <<>>
    /\ new_json_structure = [found_duplicates_count |-> 0, duplicates |-> EmptyMap]
    /\ first_file_path = None
    /\ run = 0
    /\ fs_start = fs
    /\ first_run = [report |-> [found_duplicates_count |-> 0, duplicates |-> EmptyMap],
                    fs |-> fs, deleted |-> 0]
    /\ alias = "none"
    /\ unprintable_listed = {}
    /\ unprintable_keys = {}

Init == ScanInit /\ PruneIdle

\* ------------------------------------------------------------ main.py: actions
\* run, line 182: collect_image_files prints the name of every directory
\* (line 72, or line 69 when it does not exist), walks it and returns the
\* image paths found; no future exists yet.
CollectImageFiles ==
    /\ pc = "collect"
    /\ \A n \in DOMAIN directories : PrintableDir(directories[n])
    /\ image_files' = walk
    /\ task' = [i \in 1..Len(walk) |-> "unsubmitted"]
    /\ outcome' = [i \in 1..Len(walk) |-> <<None, None>>]
    /\ worker_at' = [i \in 1..Len(walk) |-> "none"]
    /\ pc' = "run"
    /\ UNCHANGED <<disk, max_workers, submitted, yielded, cur, consumed,
                   md5_dict, lock, completed, failure_log, duplicates,
                   sorted_md5_list>>
    /\ UNCHANGED open_files
    /\ UNCHANGED <<unprintable, directories, walk>>
    /\ UNCHANGED pruneVars

\* collect_image_files, lines 69/72: the print of a directory name raises
\* UnicodeEncodeError; run is left at line 182 and nothing is scanned.
CollectRaises ==
    /\ pc = "collect"
    /\ \E n \in DOMAIN directories : ~PrintableDir(directories[n])
    /\ pc' = "collect_failed"
    /\ UNCHANGED <<disk, image_files, max_workers, submitted, task, outcome,
                   yielded, cur, consumed, md5_dict, lock, completed,
                   failure_log, duplicates, sorted_md5_list>>
    /\ UNCHANGED open_files
    /\ UNCHANGED <<worker_at, unprintable, directories, walk>>
    /\ UNCHANGED pruneVars

\* run, lines 184-186: collect_image_files found nothing; run returns
\* without calling process_images or print_results.
NoImages ==
    /\ pc = "run"
    /\ image_files = <<>>
    /\ pc' = "no_images"
    /\ UNCHANGED <<disk, image_files, max_workers, submitted, task, outcome,
                   yielded, cur, consumed, md5_dict, lock, completed,
                   failure_log, duplicates, sorted_md5_list>>
    /\ UNCHANGED open_files
    /\ UNCHANGED <<worker_at, unprintable, directories, walk>>
    /\ UNCHANGED pruneVars

\* run, line 189: process_images is called with the collected list; the
\* executor is created (line 91).
CallProcessImages ==
    /\ pc = "run"
    /\ image_files # <<>>
    /\ pc' = "submit"
    /\ UNCHANGED <<disk, image_files, max_workers, submitted, task, outcome,
                   yielded, cur, consumed, md5_dict, lock, completed,
                   failure_log, duplicates, sorted_md5_list>>
    /\ UNCHANGED open_files
    /\ UNCHANGED <<worker_at, unprintable, directories, walk>>
    /\ UNCHANGED pruneVars

\* executor.submit(self.calculate_md5, file_path) for the next path (93-96).
Submit ==
    /\ pc = "submit"
    /\ submitted < Len(image_files)
    /\ submitted' = submitted + 1
    /\ task' = [task EXCEPT ![submitted + 1] = "queued"]
    /\ UNCHANGED <<disk, image_files, max_workers, pc, outcome, yielded, cur,
                   consumed, md5_dict, lock, completed, failure_log,
                   duplicates, sorted_md5_list>>
    /\ UNCHANGED open_files
    /\ UNCHANGED <<worker_at, unprintable, directories, walk>>
    /\ UNCHANGED pruneVars

\* The comprehension is exhausted; the loop over as_completed begins (99-100).
BeginLoop ==
    /\ pc = "submit"
    /\ submitted = Len(image_files)
    /\ pc' = "wait"
    /\ UNCHANGED <<disk, image_files, max_workers, submitted, task, outcome,
                   yielded, cur, consumed, md5_dict, lock, completed,
                   failure_log, duplicates, sorted_md5_list>>
    /\ UNCHANGED open_files
    /\ UNCHANGED <<worker_at, unprintable, directories, walk>>
    /\ UNCHANGED pruneVars

\* Whether open(file_path, "rb") can return a handle: on an unreadable
\* path open() raises, or it succeeds and a later read raises.
OpenOutcomes(file_path) ==
    IF disk[file_path] = Unreadable THEN {FALSE, TRUE} ELSE {TRUE}

\* The pool's threads take the work items in the order of submission and
\* there are at most max_workers threads (line 91): when the future of
\* item i is marked running, every item up to i has been taken, and each
\* of those that is not finished occupies a thread of its own.
PoolCanRun(i) ==
    Cardinality({j \in 1..i : task[j] # "finished"}) <= max_workers

\* A pool that runs every queued item at once, whatever max_workers.
WorkerStart_unbounded(i) ==
    /\ i \in 1..submitted
    /\ task[i] = "queued"
    /\ task' = [task EXCEPT ![i] = "running"]
    /\ worker_at' = [worker_at EXCEPT ![i] = "open"]
    /\ UNCHANGED <<disk, image_files, max_workers, pc, submitted, outcome,
                   yielded, cur, consumed, md5_dict, lock, completed,
                   failure_log, duplicates, sorted_md5_list>>
    /\ UNCHANGED open_files
    /\ UNCHANGED <<unprintable, directories, walk>>
    /\ UNCHANGED pruneVars

\* A pool thread that took work item i marks the future running and enters
\* calculate_md5 (lines 32-33): the digest computation executes from here.
WorkerStart(i) ==
    /\ i \in 1..submitted
    /\ task[i] = "queued"
    /\ PoolCanRun(i)
    /\ task' = [task EXCEPT ![i] = "running"]
    /\ worker_at' = [worker_at EXCEPT ![i] = "open"]
    /\ UNCHANGED <<disk, image_files, max_workers, pc, submitted, outcome,
                   yielded, cur, consumed, md5_dict, lock, completed,
                   failure_log, duplicates, sorted_md5_list>>
    /\ UNCHANGED open_files
    /\ UNCHANGED <<unprintable, directories, walk>>
    /\ UNCHANGED pruneVars

\* open(file_path, "rb") (line 34): the file is open, or the exception
\* takes the thread to the except clause.
OpenFile(i) ==
    /\ i \in 1..submitted
    /\ worker_at[i] = "open"
    /\ \E opened \in OpenOutcomes(image_files[i]) :
          /\ open_files' = IF opened THEN open_files \cup {i} ELSE open_files
          /\ worker_at' = [worker_at EXCEPT
                              ![i] = IF opened THEN "read" ELSE "except"]
    /\ UNCHANGED <<disk, image_files, max_workers, pc, submitted, task,
                   outcome, yielded, cur, consumed, md5_dict, lock, completed,
                   failure_log, duplicates, sorted_md5_list>>
    /\ UNCHANGED <<unprintable, directories, walk>>
    /\ UNCHANGED pruneVars

\* calculate_md5 without its with block: a read that raises leaves the
\* file open.
ReadAndClose_leaks(i) ==
    /\ i \in 1..submitted
    /\ worker_at[i] = "read"
    /\ open_files' = IF disk[image_files[i]] = Unreadable
                     THEN open_files
                     ELSE open_files \ {i}
    /\ worker_at' = [worker_at EXCEPT
                        ![i] = IF disk[image_files[i]] = Unreadable
                               THEN "except" ELSE "return"]
    /\ UNCHANGED <<disk, image_files, max_workers, pc, submitted, task,
                   outcome, yielded, cur, consumed, md5_dict, lock, completed,
                   failure_log, duplicates, sorted_md5_list>>
    /\ UNCHANGED <<unprintable, directories, walk>>
    /\ UNCHANGED pruneVars

\* Lines 36-37: the file is read to its end, or a read raises; either way
\* the with block closes the file on the way out.
ReadAndClose(i) ==
    /\ i \in 1..submitted
    /\ worker_at[i] = "read"
    /\ open_files' = open_files \ {i}
    /\ worker_at' = [worker_at EXCEPT
                        ![i] = IF disk[image_files[i]] = Unreadable
                               THEN "except" ELSE "return"]
    /\ UNCHANGED <<disk, image_files, max_workers, pc, submitted, task,
                   outcome, yielded, cur, consumed, md5_dict, lock, completed,
                   failure_log, duplicates, sorted_md5_list>>
    /\ UNCHANGED <<unprintable, directories, walk>>
    /\ UNCHANGED pruneVars

\* Lines 39-40: the except clause prints its line, or the print raises.
ExceptPrint(i) ==
    /\ i \in 1..submitted
    /\ worker_at[i] = "except"
    /\ failure_log' = LogFailure(failure_log, image_files[i])
    /\ worker_at' = [worker_at EXCEPT ![i] = "return"]
    /\ UNCHANGED <<disk, image_files, max_workers, pc, submitted, task,
                   outcome, yielded, cur, consumed, md5_dict, lock, completed,
                   duplicates, sorted_md5_list>>
    /\ UNCHANGED open_files
    /\ UNCHANGED <<unprintable, directories, walk>>
    /\ UNCHANGED pruneVars

\* Lines 38, 41: calculate_md5 returns, or is left by the exception of
\* line 40, and the pool resolves the future with what it got.
WorkerFinish(i) ==
    /\ i \in 1..submitted
    /\ worker_at[i] = "return"
    /\ task' = [task EXCEPT ![i] = "finished"]
    /\ outcome' = [outcome EXCEPT ![i] = calculate_md5(image_files[i])]
    /\ worker_at' = [worker_at EXCEPT ![i] = "none"]
    /\ UNCHANGED <<disk, image_files, max_workers, pc, submitted, yielded,
                   cur, consumed, md5_dict, lock, completed, failure_log,
                   duplicates, sorted_md5_list>>
    /\ UNCHANGED open_files
    /\ UNCHANGED <<unprintable, directories, walk>>
    /\ UNCHANGED pruneVars

\* as_completed yields a finished future it has not yielded yet, and
\* future.result() is unpacked (100-101); an exception held by the future
\* is re-raised there and leaves process_images.
AsCompleted(i) ==
    /\ pc = "wait"
    /\ i \in Futures
    /\ task[i] = "finished"
    /\ i \notin yielded
    /\ yielded' = yielded \cup {i}
    /\ IF outcome[i] = Raised
       THEN /\ pc' = "raised"
            /\ UNCHANGED <<cur, consumed>>
       ELSE /\ pc' = "check"
            /\ cur' = outcome[i]
            /\ consumed' = Append(consumed, outcome[i])
    /\ UNCHANGED <<disk, image_files, max_workers, submitted, task, outcome,
                   md5_dict, lock, completed, failure_log, duplicates,
                   sorted_md5_list>>
    /\ UNCHANGED open_files
    /\ UNCHANGED <<worker_at, unprintable, directories, walk>>
    /\ UNCHANGED pruneVars

\* `if md5_value:` is false: nothing is stored (103).
SkipFailed ==
    /\ pc = "check"
    /\ ~ShouldAppend(cur[1])
    /\ pc' = "count"
    /\ UNCHANGED <<disk, image_files, max_workers, submitted, task, outcome,
                   yielded, cur, consumed, md5_dict, lock, completed,
                   failure_log, duplicates, sorted_md5_list>>
    /\ UNCHANGED open_files
    /\ UNCHANGED <<worker_at, unprintable, directories, walk>>
    /\ UNCHANGED pruneVars

\* `with self.lock:` entered (104).
AcquireLock ==
    /\ pc = "check"
    /\ ShouldAppend(cur[1])
    /\ lock = "free"
    /\ lock' = "aggregator"
    /\ pc' = "locked"
    /\ UNCHANGED <<disk, image_files, max_workers, submitted, task, outcome,
                   yielded, cur, consumed, md5_dict, completed, failure_log,
                   duplicates, sorted_md5_list>>
    /\ UNCHANGED open_files
    /\ UNCHANGED <<worker_at, unprintable, directories, walk>>
    /\ UNCHANGED pruneVars

\* self.md5_dict[md5_value].append(file_path) (105).
AppendToGroup ==
    /\ pc = "locked"
    /\ md5_dict' = GroupAppend(md5_dict, cur[1], cur[2])
    /\ pc' = "unlock"
    /\ UNCHANGED <<disk, image_files, max_workers, submitted, task, outcome,
                   yielded, cur, consumed, lock, completed, failure_log,
                   duplicates, sorted_md5_list>>
    /\ UNCHANGED open_files
    /\ UNCHANGED <<worker_at, unprintable, directories, walk>>
    /\ UNCHANGED pruneVars

\* The with block is left and the lock released (104-105).
ReleaseLock ==
    /\ pc = "unlock"
    /\ lock' = "free"
    /\ pc' = "count"
    /\ UNCHANGED <<disk, image_files, max_workers, submitted, task, outcome,
                   yielded, cur, consumed, md5_dict, completed, failure_log,
                   duplicates, sorted_md5_list>>
    /\ UNCHANGED open_files
    /\ UNCHANGED <<worker_at, unprintable, directories, walk>>
    /\ UNCHANGED pruneVars

\* completed += 1 (107).
Count ==
    /\ pc = "count"
    /\ completed' = completed + 1
    /\ pc' = "wait"
    /\ UNCHANGED <<disk, image_files, max_workers, submitted, task, outcome,
                   yielded, cur, consumed, md5_dict, lock, failure_log,
                   duplicates, sorted_md5_list>>
    /\ UNCHANGED open_files
    /\ UNCHANGED <<worker_at, unprintable, directories, walk>>
    /\ UNCHANGED pruneVars

\* as_completed is exhausted, the executor's with block joins its threads and
\* process_images returns (100, 91, 111).
Return ==
    /\ pc = "wait"
    /\ yielded = Futures
    /\ \A i \in Futures : task[i] = "finished"
    /\ pc' = "done"
    /\ UNCHANGED <<disk, image_files, max_workers, submitted, task, outcome,
                   yielded, cur, consumed, md5_dict, lock, completed,
                   failure_log, duplicates, sorted_md5_list>>
    /\ UNCHANGED open_files
    /\ UNCHANGED <<worker_at, unprintable, directories, walk>>
    /\ UNCHANGED pruneVars

\* The exception re-raised at line 101 leaves the executor's with block,
\* which waits for every submitted task, and then process_images and run.
Abort ==
    /\ pc = "raised"
    /\ \A i \in Futures : task[i] = "finished"
    /\ pc' = "aborted"
    /\ UNCHANGED <<disk, image_files, max_workers, submitted, task, outcome,
                   yielded, cur, consumed, md5_dict, lock, completed,
                   failure_log, duplicates, sorted_md5_list>>
    /\ UNCHANGED open_files
    /\ UNCHANGED <<worker_at, unprintable, directories, walk>>
    /\ UNCHANGED pruneVars

\* Every path print_results prints (lines 146-149: all groups).
PrintedPaths == UNION {Range(md5_dict[k]) : k \in DOMAIN md5_dict}

\* print_results (145-170): reads the map through its two views and prints
\* every group.
PrintResults ==
    /\ pc = "done"
    /\ \A path \in PrintedPaths : Printable(path)
    /\ sorted_md5_list' = get_sorted_md5_list(md5_dict)
    /\ duplicates' = find_duplicates(md5_dict)
    /\ pc' = "printed"
    /\ UNCHANGED <<disk, image_files, max_workers, submitted, task, outcome,
                   yielded, cur, consumed, md5_dict, lock, completed,
                   failure_log>>
    /\ UNCHANGED open_files
    /\ UNCHANGED <<worker_at, unprintable, directories, walk>>
    /\ UNCHANGED pruneVars

\* print_results, lines 145-149: the print of a path raises; line 153 is
\* never reached.
PrintResultsRaises ==
    /\ pc = "done"
    /\ \E path \in PrintedPaths : ~Printable(path)
    /\ sorted_md5_list' = get_sorted_md5_list(md5_dict)
    /\ pc' = "print_failed"
    /\ UNCHANGED <<disk, image_files, max_workers, submitted, task, outcome,
                   yielded, cur, consumed, md5_dict, lock, completed,
                   failure_log, duplicates>>
    /\ UNCHANGED open_files
    /\ UNCHANGED <<worker_at, unprintable, directories, walk>>
    /\ UNCHANGED pruneVars

Next ==
    \/ CollectImageFiles
    \/ CollectRaises
    \/ NoImages
    \/ CallProcessImages
    \/ Submit
    \/ BeginLoop
    \/ \E i \in 1..MaxFiles : WorkerStart(i)
    \/ \E i \in 1..MaxFiles : OpenFile(i)
    \/ \E i \in 1..MaxFiles : ReadAndClose(i)
    \/ \E i \in 1..MaxFiles : ExceptPrint(i)
    \/ \E i \in 1..MaxFiles : WorkerFinish(i)
    \/ \E i \in 1..MaxFiles : AsCompleted(i)
    \/ SkipFailed
    \/ AcquireLock
    \/ AppendToGroup
    \/ ReleaseLock
    \/ Count
    \/ Return
    \/ Abort
    \/ PrintResults
    \/ PrintResultsRaises

Spec == Init /\ [][Next]_vars

\* The threads of the pool and the calling thread are scheduled by the
\* operating system: a step that stays possible is eventually taken.
ScanFairSpec == Init /\ [][Next]_vars /\ WF_vars(Next)

\* ------------------------------------------------- delete_file.py: the world
\* Paths a report can name.
PrunePaths == {"a.jpg", "c.jpg"}
\* What a path leads to: a file os.remove can remove, something os.remove
\* fails on with an OSError (a directory, an entry of a read-only
\* directory), or nothing (os.path.exists is False).
FsStates == {"file", "locked", "absent"}
\* How the two paths relate on disk:
\*   none      two unrelated directory entries
\*   spelling  two spellings of one directory entry ("a.jpg", "./a.jpg")
\*   symlink   a.jpg is a symbolic link to c.jpg
Aliases == {"none", "spelling", "symlink"}
\* Values a "duplicates" entry can hold: a JSON array of paths, or a JSON
\* value that is not an array (null is falsy; a non-empty string, here the
\* text of one path, is truthy).
JsonLists == UNION {[1..n -> PrunePaths] : n \in 0..MaxList}
JsonValues ==
    {[type |-> "list", items |-> l] : l \in JsonLists}
        \cup {[type |-> "null", items |-> <<>>]}
        \cup {[type |-> "string", items |-> <<p>>] : p \in PrunePaths}
\* Shapes of the document at JSON_FILE_PATH.
\*   missing       open() raises FileNotFoundError
\*   bad_json      json.loads raises JSONDecodeError
\*   scalar        the document is a number or null: `in` raises TypeError
\*   no_key        an object without "duplicates"
\*   not_dict      "duplicates" is not an object
\*   ok            "duplicates" is an object
DataKinds == {"missing", "bad_json", "scalar", "no_key", "not_dict", "ok"}

\* Python truthiness of a JSON value.
Truthy(v) ==
    CASE v.type = "list" -> Len(v.items) > 0
      [] v.type = "null" -> FALSE
      [] v.type = "string" -> TRUE

\* isinstance(file_list, list)
IsList(v) == v.type = "list"

\* `not file_list or not isinstance(file_list, list)` (line 28).
InvalidFileList(v) == ~Truthy(v) \/ ~IsList(v)

\* os.path.exists(path): follows symbolic links.
PathExists(path) == fs[path] # "absent"

\* The disks the relation between the paths allows: two spellings lead to
\* the same thing; a link leads nowhere exactly when its target is absent.
DiskAllowed(f, al) ==
    CASE al = "spelling" -> f["a.jpg"] = f["c.jpg"]
      [] al = "symlink" -> (f["a.jpg"] = "absent") <=> (f["c.jpg"] = "absent")
      [] OTHER -> TRUE

\* The disk after os.remove(path) has returned (line 41): the directory
\* entry is gone, under each of its spellings, and a link to it dangles;
\* removing a link leaves its target alone.
os_remove(f, path) ==
    CASE alias = "spelling" -> [q \in DOMAIN f |-> "absent"]
      [] alias = "symlink" /\ path = "c.jpg" -> [q \in DOMAIN f |-> "absent"]
      [] OTHER -> [f EXCEPT ![path] = "absent"]

\* print() of a text naming the path (sys.stdout with errors='strict').
PrintableListed(path) == path \notin unprintable_listed

\* print() of the warning of line 30, which names the key of the entry.
PrintableKey(e) == e \notin unprintable_keys

\* The paths the deletion loop can reach: those after the first path of a
\* list of the "duplicates" object.
Reachable(kind, es) ==
    IF kind # "ok" THEN {}
    ELSE UNION {{es[e].items[n] : n \in 2..Len(es[e].items)} :
                   e \in {x \in DOMAIN es : es[x].type = "list"}}

file_list == entries[ei]

\* Number of paths a sequence of entries names.
RECURSIVE ReportSize(_)
ReportSize(es) ==
    IF es = <<>> THEN 0
    ELSE Len(Head(es).items) + ReportSize(Tail(es))

PruneInit ==
    /\ entries \in UNION {[1..n -> JsonValues] : n \in 0..MaxEntries}
    /\ ReportSize(entries) <= MaxPaths
    /\ fs \in [PrunePaths -> FsStates]
    /\ alias \in Aliases
    /\ DiskAllowed(fs, alias)
    /\ data_kind \in DataKinds
    \* only a path the deletion loop reaches is ever printed
    /\ unprintable_listed \in SUBSET Reachable(data_kind, entries)
    \* only the key of an entry that fails the test of line 28 is printed
    /\ unprintable_keys \in SUBSET
          {e \in DOMAIN entries : data_kind = "ok" /\ InvalidFileList(entries[e])}
    \* entries are data["duplicates"].items() when data_kind is "ok"; a
    \* document of kind no_key or not_dict holds its path lists elsewhere
    \* (under another key, or in an array); the other kinds hold none
    /\ (data_kind \in {"missing", "bad_json", "scalar"} => entries = <<>>)
    /\ ppc = "load"
    /\ ei = 0
    /\ fj = 0
    /\ kept_files_data = EmptyMap
    /\ files_deleted_count = 0
    /\ processed_md5_count = 0
    /\ removed = <<>>
    /\ console = <<>>
    /\ new_json_structure = [found_duplicates_count |-> 0, duplicates |-> EmptyMap]
    /\ first_file_path = None
    /\ run = 1
    /\ fs_start = fs
    /\ first_run = [report |-> [found_duplicates_count |-> 0, duplicates |-> EmptyMap],
                    fs |-> fs, deleted |-> 0]

\* --------------------------------------------------- delete_file.py: actions
\* Lines 12-21: read and parse the report, reset the counters.
LoadReport ==
    /\ ppc = "load"
    /\ data_kind \notin {"missing", "bad_json"}
    /\ ppc' = "shape"
    /\ UNCHANGED <<fs, data_kind, entries, ei, fj, kept_files_data,
                   files_deleted_count, processed_md5_count, removed, console,
                   new_json_structure>>
    /\ UNCHANGED <<first_file_path, run, fs_start, first_run>>
    /\ UNCHANGED <<alias, unprintable_listed, unprintable_keys>>
    /\ UNCHANGED scanVars

\* Lines 12-16 raise; the handlers of lines 78-81 end the run.
LoadFails ==
    /\ ppc = "load"
    /\ data_kind \in {"missing", "bad_json"}
    /\ ppc' = "fatal"
    /\ UNCHANGED <<fs, data_kind, entries, ei, fj, kept_files_data,
                   files_deleted_count, processed_md5_count, removed, console,
                   new_json_structure>>
    /\ UNCHANGED <<first_file_path, run, fs_start, first_run>>
    /\ UNCHANGED <<alias, unprintable_listed, unprintable_keys>>
    /\ UNCHANGED scanVars

\* The shape test falling back to the document's own path lists when the
\* "duplicates" key is absent.
CheckShape_lenient ==
    /\ ppc = "shape"
    /\ ppc' = CASE data_kind = "scalar" -> "fatal"
                [] data_kind = "not_dict" -> "build"
                [] data_kind \in {"ok", "no_key"} -> "for"
    /\ ei' = IF data_kind \in {"ok", "no_key"} THEN 1 ELSE ei
    /\ UNCHANGED <<fs, data_kind, entries, fj, kept_files_data,
                   files_deleted_count, processed_md5_count, removed, console,
                   new_json_structure>>
    /\ UNCHANGED <<first_file_path, run, fs_start, first_run>>
    /\ UNCHANGED <<alias, unprintable_listed, unprintable_keys>>
    /\ UNCHANGED scanVars

\* Line 24: the shape test of the document.
CheckShape ==
    /\ ppc = "shape"
    /\ ppc' = CASE data_kind = "scalar" -> "fatal"
                [] data_kind \in {"no_key", "not_dict"} -> "build"
                [] data_kind = "ok" -> "for"
    /\ ei' = IF data_kind = "ok" THEN 1 ELSE ei
    /\ UNCHANGED <<fs, data_kind, entries, fj, kept_files_data,
                   files_deleted_count, processed_md5_count, removed, console,
                   new_json_structure>>
    /\ UNCHANGED <<first_file_path, run, fs_start, first_run>>
    /\ UNCHANGED <<alias, unprintable_listed, unprintable_keys>>
    /\ UNCHANGED scanVars

\* Lines 25-26: the loop takes the next entry and counts it.
ForEntry ==
    /\ ppc = "for"
    /\ ei <= Len(entries)
    /\ processed_md5_count' = processed_md5_count + 1
    /\ ppc' = "validate"
    /\ UNCHANGED <<fs, data_kind, entries, ei, fj, kept_files_data,
                   files_deleted_count, removed, console, new_json_structure>>
    /\ UNCHANGED <<first_file_path, run, fs_start, first_run>>
    /\ UNCHANGED <<alias, unprintable_listed, unprintable_keys>>
    /\ UNCHANGED scanVars

\* Lines 28-31: an empty or non-list value is warned about and skipped.
SkipInvalid ==
    /\ ppc = "validate"
    /\ InvalidFileList(file_list)
    /\ PrintableKey(ei)
    /\ ei' = ei + 1
    /\ ppc' = "for"
    /\ UNCHANGED <<fs, data_kind, entries, fj, kept_files_data,
                   files_deleted_count, processed_md5_count, removed, console,
                   new_json_structure>>
    /\ UNCHANGED <<first_file_path, run, fs_start, first_run>>
    /\ UNCHANGED <<alias, unprintable_listed, unprintable_keys>>
    /\ UNCHANGED scanVars

\* Lines 28-30 on a key the console cannot encode: the warning's print
\* raises UnicodeEncodeError and the handler of lines 82-83 ends the run.
SkipPrintRaises ==
    /\ ppc = "validate"
    /\ InvalidFileList(file_list)
    /\ ~PrintableKey(ei)
    /\ ppc' = "fatal"
    /\ UNCHANGED <<fs, data_kind, entries, ei, fj, kept_files_data,
                   files_deleted_count, processed_md5_count, removed, console,
                   new_json_structure>>
    /\ UNCHANGED <<first_file_path, run, fs_start, first_run>>
    /\ UNCHANGED <<alias, unprintable_listed, unprintable_keys>>
    /\ UNCHANGED scanVars

\* Line 34: the first path is designated as the one to keep.
RetainFirst ==
    /\ ppc = "validate"
    /\ ~InvalidFileList(file_list)
    /\ first_file_path' = file_list.items[1]
    /\ ppc' = "retain"
    /\ UNCHANGED <<fs, data_kind, entries, ei, fj, kept_files_data,
                   files_deleted_count, processed_md5_count, removed, console,
                   new_json_structure>>
    /\ UNCHANGED <<run, fs_start, first_run>>
    /\ UNCHANGED <<alias, unprintable_listed, unprintable_keys>>
    /\ UNCHANGED scanVars

\* The updated report keeping the whole list instead of its first path.
RecordKept_whole_list ==
    /\ ppc = "retain"
    /\ kept_files_data' =
          [k \in DOMAIN kept_files_data \cup {ei} |->
              IF k = ei THEN file_list.items ELSE kept_files_data[k]]
    /\ fj' = 2
    /\ ppc' = "delete"
    /\ UNCHANGED <<fs, data_kind, entries, ei, files_deleted_count,
                   processed_md5_count, removed, console, new_json_structure>>
    /\ UNCHANGED <<first_file_path, run, fs_start, first_run>>
    /\ UNCHANGED <<alias, unprintable_listed, unprintable_keys>>
    /\ UNCHANGED scanVars

\* Line 35: kept_files_data[md5_hash] = [first_file_path]; the loop over
\* file_list[1:] is entered (line 38).
RecordKept ==
    /\ ppc = "retain"
    /\ kept_files_data' =
          [k \in DOMAIN kept_files_data \cup {ei} |->
              IF k = ei THEN <<first_file_path>> ELSE kept_files_data[k]]
    /\ fj' = 2
    /\ ppc' = "delete"
    /\ UNCHANGED <<fs, data_kind, entries, ei, files_deleted_count,
                   processed_md5_count, removed, console, new_json_structure>>
    /\ UNCHANGED <<first_file_path, run, fs_start, first_run>>
    /\ UNCHANGED <<alias, unprintable_listed, unprintable_keys>>
    /\ UNCHANGED scanVars

\* A removal that hits the path before the one tested.
RemoveFile_prev ==
    /\ ppc = "delete"
    /\ fj <= Len(file_list.items)
    /\ fs[file_list.items[fj]] = "file"
    /\ PrintableListed(file_list.items[fj])
    /\ fs' = os_remove(fs, file_list.items[fj - 1])
    /\ removed' = Append(removed, file_list.items[fj - 1])
    /\ files_deleted_count' = files_deleted_count + 1
    /\ console' = Append(console, <<ei, fj, "deleted">>)
    /\ fj' = fj + 1
    /\ UNCHANGED <<data_kind, entries, ppc, ei, kept_files_data,
                   processed_md5_count, new_json_structure>>
    /\ UNCHANGED <<first_file_path, run, fs_start, first_run>>
    /\ UNCHANGED <<alias, unprintable_listed, unprintable_keys>>
    /\ UNCHANGED scanVars

\* Lines 40-43: the path exists, os.remove succeeds, the line is printed
\* and the deletion counted.
RemoveFile ==
    /\ ppc = "delete"
    /\ fj <= Len(file_list.items)
    /\ fs[file_list.items[fj]] = "file"
    /\ PrintableListed(file_list.items[fj])
    /\ fs' = os_remove(fs, file_list.items[fj])
    /\ removed' = Append(removed, file_list.items[fj])
    /\ files_deleted_count' = files_deleted_count + 1
    /\ console' = Append(console, <<ei, fj, "deleted">>)
    /\ fj' = fj + 1
    /\ UNCHANGED <<data_kind, entries, ppc, ei, kept_files_data,
                   processed_md5_count, new_json_structure>>
    /\ UNCHANGED <<first_file_path, run, fs_start, first_run>>
    /\ UNCHANGED <<alias, unprintable_listed, unprintable_keys>>
    /\ UNCHANGED scanVars

\* The missing-file branch counting the path as deleted.
WarnMissing_counts ==
    /\ ppc = "delete"
    /\ fj <= Len(file_list.items)
    /\ ~PathExists(file_list.items[fj])
    /\ PrintableListed(file_list.items[fj])
    /\ console' = Append(console, <<ei, fj, "missing">>)
    /\ files_deleted_count' = files_deleted_count + 1
    /\ fj' = fj + 1
    /\ UNCHANGED <<fs, data_kind, entries, ppc, ei, kept_files_data,
                   processed_md5_count, removed, new_json_structure>>
    /\ UNCHANGED <<first_file_path, run, fs_start, first_run>>
    /\ UNCHANGED <<alias, unprintable_listed, unprintable_keys>>
    /\ UNCHANGED scanVars

\* Lines 44-45: the path does not exist; a warning is printed.
WarnMissing ==
    /\ ppc = "delete"
    /\ fj <= Len(file_list.items)
    /\ ~PathExists(file_list.items[fj])
    /\ PrintableListed(file_list.items[fj])
    /\ console' = Append(console, <<ei, fj, "missing">>)
    /\ fj' = fj + 1
    /\ UNCHANGED <<fs, data_kind, entries, ppc, ei, kept_files_data,
                   files_deleted_count, processed_md5_count, removed,
                   new_json_structure>>
    /\ UNCHANGED <<first_file_path, run, fs_start, first_run>>
    /\ UNCHANGED <<alias, unprintable_listed, unprintable_keys>>
    /\ UNCHANGED scanVars

\* Lines 41, 46-47: os.remove raises OSError; the error is printed and the
\* loop goes on.
ReportOSError ==
    /\ ppc = "delete"
    /\ fj <= Len(file_list.items)
    /\ fs[file_list.items[fj]] = "locked"
    /\ PrintableListed(file_list.items[fj])
    /\ console' = Append(console, <<ei, fj, "oserror">>)
    /\ fj' = fj + 1
    /\ UNCHANGED <<fs, data_kind, entries, ppc, ei, kept_files_data,
                   files_deleted_count, processed_md5_count, removed,
                   new_json_structure>>
    /\ UNCHANGED <<first_file_path, run, fs_start, first_run>>
    /\ UNCHANGED <<alias, unprintable_listed, unprintable_keys>>
    /\ UNCHANGED scanVars

\* Lines 40-49 on a path the console cannot encode: whichever branch is
\* taken (file removed at 41, missing, OSError) its print raises
\* UnicodeEncodeError; from the try body the handler of line 48 catches it
\* and its own print raises again; the exception leaves both loops and the
\* handler of lines 82-83 ends the run. A file removed at line 41 stays
\* removed and is not counted.
PrintRaises ==
    /\ ppc = "delete"
    /\ fj <= Len(file_list.items)
    /\ ~PrintableListed(file_list.items[fj])
    /\ fs' = IF fs[file_list.items[fj]] = "file"
             THEN os_remove(fs, file_list.items[fj])
             ELSE fs
    /\ removed' = IF fs[file_list.items[fj]] = "file"
                  THEN Append(removed, file_list.items[fj])
                  ELSE removed
    /\ ppc' = "fatal"
    /\ UNCHANGED <<data_kind, entries, ei, fj, kept_files_data,
                   files_deleted_count, processed_md5_count, console,
                   new_json_structure>>
    /\ UNCHANGED <<first_file_path, run, fs_start, first_run>>
    /\ UNCHANGED <<alias, unprintable_listed, unprintable_keys>>
    /\ UNCHANGED scanVars

\* Line 38: file_list[1:] is exhausted; back to the outer loop.
EndEntry ==
    /\ ppc = "delete"
    /\ fj > Len(file_list.items)
    /\ ei' = ei + 1
    /\ ppc' = "for"
    /\ UNCHANGED <<fs, data_kind, entries, fj, kept_files_data,
                   files_deleted_count, processed_md5_count, removed, console,
                   new_json_structure>>
    /\ UNCHANGED <<first_file_path, run, fs_start, first_run>>
    /\ UNCHANGED <<alias, unprintable_listed, unprintable_keys>>
    /\ UNCHANGED scanVars

\* Line 25: the items are exhausted.
EndLoop ==
    /\ ppc = "for"
    /\ ei > Len(entries)
    /\ ppc' = "build"
    /\ UNCHANGED <<fs, data_kind, entries, ei, fj, kept_files_data,
                   files_deleted_count, processed_md5_count, removed, console,
                   new_json_structure>>
    /\ UNCHANGED <<first_file_path, run, fs_start, first_run>>
    /\ UNCHANGED <<alias, unprintable_listed, unprintable_keys>>
    /\ UNCHANGED scanVars

\* Lines 55-69: the updated report is built and printed.
BuildReport ==
    /\ ppc = "build"
    /\ new_json_structure' =
          [found_duplicates_count |-> Cardinality(DOMAIN kept_files_data),
           duplicates |-> kept_files_data]
    /\ ppc' = "done"
    /\ UNCHANGED <<fs, data_kind, entries, ei, fj, kept_files_data,
                   files_deleted_count, processed_md5_count, removed, console>>
    /\ UNCHANGED <<first_file_path, run, fs_start, first_run>>
    /\ UNCHANGED <<alias, unprintable_listed, unprintable_keys>>
    /\ UNCHANGED scanVars

\* The script is started a second time on the same report file (lines 71-76
\* are commented out: the report is never rewritten) and on the disk the
\* first run left; lines 19-21 start from fresh counters.
Rerun ==
    /\ ppc \in {"done", "fatal"}
    /\ run = 1
    /\ run' = 2
    /\ first_run' = [report |-> new_json_structure, fs |-> fs,
                     deleted |-> files_deleted_count]
    /\ fs_start' = fs
    /\ ppc' = "load"
    /\ ei' = 0
    /\ fj' = 0
    /\ kept_files_data' = EmptyMap
    /\ files_deleted_count' = 0
    /\ processed_md5_count' = 0
    /\ removed' = <<>>
    /\ console' = <<>>
    /\ new_json_structure' =
          [found_duplicates_count |-> 0, duplicates |-> EmptyMap]
    /\ first_file_path' = None
    /\ UNCHANGED <<fs, data_kind, entries>>
    /\ UNCHANGED <<alias, unprintable_listed, unprintable_keys>>
    /\ UNCHANGED scanVars

\* One step of a run of the script.
PruneStep ==
    \/ LoadReport
    \/ LoadFails
    \/ CheckShape
    \/ ForEntry
    \/ SkipInvalid
    \/ SkipPrintRaises
    \/ RetainFirst
    \/ RecordKept
    \/ RemoveFile
    \/ WarnMissing
    \/ ReportOSError
    \/ PrintRaises
    \/ EndEntry
    \/ EndLoop
    \/ BuildReport

PruneNext == PruneStep \/ Rerun

\* The script starts on its own; no scan is running.
PruneStart == ScanIdle /\ PruneInit

PruneSpec == PruneStart /\ [][PruneNext]_vars

\* One run of the script; a sequential script that can take a step takes it.
PruneFairSpec == PruneStart /\ [][PruneStep]_vars /\ WF_vars(PruneStep)

\* =================================================================== claims
\* ---------------------------------------------------------- shared notions
\* The bag of the elements of a sequence.
SeqToBag(s) ==
    [e \in Range(s) |-> Cardinality({i \in DOMAIN s : s[i] = e})]

\* process_images has returned.
Aggregated == pc \in {"done", "printed", "print_failed"}

\* process_images has been left, by its return or by an exception.
Left == Aggregated \/ pc = "aborted"

\* The fingerprint a path must get from the disk, or None.
DigestOf(path) ==
    IF disk[path] = Unreadable THEN None ELSE hexdigest(disk[path])

\* The list stored for a fingerprint, empty when the key is absent.
Group(k) == IF k \in DOMAIN md5_dict THEN md5_dict[k] ELSE <<>>

\* The keys whose list holds the path.
GroupsHolding(path) ==
    {k \in DOMAIN md5_dict : path \in Range(md5_dict[k])}

RECURSIVE SumLens(_, _)
SumLens(d, keys) ==
    IF keys = {} THEN 0
    ELSE LET k == CHOOSE x \in keys : TRUE
         IN Len(d[k]) + SumLens(d, keys \ {k})

\* Number of paths stored across all groups.
TotalGrouped == SumLens(md5_dict, DOMAIN md5_dict)

\* Futures whose digest failed.
FailedFutures == {i \in Futures : task[i] = "finished" /\ outcome[i][1] = None}

\* The list in which the aggregator records the paths whose digest failed:
\* the loop of lines 100-107 has no branch for a None result and the
\* finder object owns no collection besides md5_dict (lines 17-20), so the
\* code keeps none and nothing is ever recorded.
FailureList == <<>>

\* The paths of the results in s that carry fingerprint k, in order.
PathsWith(s, k) ==
    LET sel == SelectSeq(s, LAMBDA r : r[1] = k)
    IN [n \in 1..Len(sel) |-> sel[n][2]]

\* The results whose append, if any, is over: the one in hand is left out
\* until line 105 has run.
Settled ==
    IF pc \in {"check", "locked"}
    THEN SubSeq(consumed, 1, Len(consumed) - 1)
    ELSE consumed

\* C1: process_images consumes exactly one result (fingerprint-or-None, path)
\* per input path, none lost and none twice: every future handed out gives
\* one consumed result, and when process_images is left the bag of results
\* is the bag of (digest of the path, path) over the input list, whatever
\* max_workers is.
C1_OneResultPerPath ==
    /\ Len(consumed) = Cardinality(yielded)
    /\ Left =>
          SeqToBag(consumed) =
             SeqToBag([i \in Futures |->
                          <<DigestOf(image_files[i]), image_files[i]>>])

\* C2: on return, paths stored across all groups plus failed digests equals
\* the number of input files.
C2_Conservation ==
    Aggregated =>
        TotalGrouped + Cardinality(FailedFutures) = Len(image_files)

\* A run with a failed digest and a group of two.
C2_Witness ==
    /\ pc = "done"
    /\ FailedFutures # {}
    /\ \E k \in DOMAIN md5_dict : Len(md5_dict[k]) = 2

\* C3: on return, a path whose digest succeeded is held by exactly one
\* group, the one of its fingerprint; a path whose digest failed by none.
C3_ExactlyOneGroup ==
    Aggregated =>
        \A i \in Futures :
            IF outcome[i][1] # None
            THEN GroupsHolding(image_files[i]) = {outcome[i][1]}
            ELSE GroupsHolding(image_files[i]) = {}

\* A run in which one digest succeeded and another failed.
C3_Witness ==
    /\ pc = "done"
    /\ \E i, j \in Futures : outcome[i][1] # None /\ outcome[j][1] = None

\* C4: the lock is held exactly while the aggregating thread is inside the
\* with block, and each group list is, in order, the paths of the settled
\* successful completions with that fingerprint: nothing lost, nothing twice.
C4_AppendsExclusive ==
    /\ (lock = "aggregator") <=> (pc \in {"locked", "unlock"})
    /\ pc \in {"check", "locked", "unlock", "count"} => Len(consumed) > 0
    /\ \A k \in DOMAIN md5_dict \cup {hexdigest(c) : c \in Contents} :
          Group(k) = PathsWith(Settled, k)

\* A second path is being appended to a group under the lock while a pool
\* thread is still hashing.
C4_Witness ==
    /\ pc = "unlock"
    /\ \E k \in DOMAIN md5_dict : Len(md5_dict[k]) = 2
    /\ \E i \in Futures : task[i] = "running"

\* C5: a digest that fails yields (None, original path); no future holds an
\* exception, process_images is never left by one, and on return every
\* submitted path was consumed and every readable one sits in its group.
C5_FailureDoesNotAbort ==
    /\ pc # "raised"
    /\ \A i \in Futures :
          task[i] = "finished" =>
             /\ outcome[i] # Raised
             /\ outcome[i][2] = image_files[i]
             /\ (disk[image_files[i]] = Unreadable => outcome[i][1] = None)
    /\ Left =>
          /\ completed = Len(image_files)
          /\ \A i \in Futures :
                disk[image_files[i]] # Unreadable =>
                   image_files[i] \in Range(Group(hexdigest(disk[image_files[i]])))

\* C6: on return the failure list the aggregator keeps, separate from the
\* groups, holds exactly the paths whose digest failed.
C6_FailureListKept ==
    Aggregated =>
        SeqToBag(FailureList) =
           SeqToBag(SelectSeq(image_files, LAMBDA p : disk[p] = Unreadable))

\* C7: find_duplicates returns exactly the entries of the map with more
\* than one path, with their lists, and the count print_results reports
\* is the number of such entries.
C7_FindDuplicatesExact ==
    LET d == find_duplicates(md5_dict)
        multi == {k \in DOMAIN md5_dict : Len(md5_dict[k]) > 1}
    IN /\ DOMAIN d \subseteq DOMAIN md5_dict
       /\ \A k \in DOMAIN md5_dict : k \in DOMAIN d <=> Len(md5_dict[k]) > 1
       /\ \A k \in DOMAIN d : d[k] = md5_dict[k]
       /\ pc = "printed" =>
             /\ duplicates = d
             /\ Cardinality(DOMAIN duplicates) = Cardinality(multi)

\* print_results ran on a map with a group of two and a group of one.
C7_Witness ==
    /\ pc = "printed"
    /\ \E k \in DOMAIN md5_dict : Len(md5_dict[k]) = 2
    /\ \E k \in DOMAIN md5_dict : Len(md5_dict[k]) = 1
    /\ Cardinality(DOMAIN duplicates) = 1

\* ------------------------------------------------------------ prune notions
ValidEntry(e) == ~InvalidFileList(entries[e])

\* The (entry, index) places of every path after the first, entry by entry.
RECURSIVE AttemptsFrom(_)
AttemptsFrom(e) ==
    IF e > Len(entries) THEN <<>>
    ELSE (IF ValidEntry(e)
          THEN [n \in 1..(Len(entries[e].items) - 1) |-> <<e, n + 1>>]
          ELSE <<>>) \o AttemptsFrom(e + 1)

\* C8: a well-formed report is never abandoned, and when the run ends the
\* console holds one line for every path after the first of every valid
\* entry, in order: a missing path or an OSError stops nothing.
C8_BatchContinues ==
    /\ data_kind = "ok" => ppc # "fatal"
    /\ (ppc = "done" /\ data_kind = "ok") =>
          [n \in DOMAIN console |-> <<console[n][1], console[n][2]>>]
             = AttemptsFrom(1)

\* C9: when the run ends, no retained path (the first of a valid entry) has
\* been removed by it: os.remove was not called on it, and if it led to
\* something when the run began it still does.
C9_RetainedNeverRemoved ==
    (ppc = "done" /\ data_kind = "ok") =>
        \A e \in DOMAIN entries :
            ValidEntry(e) =>
                /\ entries[e].items[1] \notin Range(removed)
                /\ PathExists(entries[e].items[1])
                      <=> fs_start[entries[e].items[1]] # "absent"

\* C10: between entries, only valid entries have advanced anything: the
\* groups-processed counter, the kept map and the deletions all stem from
\* the valid entries among those already passed.
C10_SkipAdvancesNothing ==
    (ppc = "for" /\ data_kind = "ok") =>
        LET valid == {e \in 1..(ei - 1) : ValidEntry(e)}
        IN /\ processed_md5_count = Cardinality(valid)
           /\ DOMAIN kept_files_data = valid
           /\ \A n \in DOMAIN console : console[n][1] \in valid
           /\ files_deleted_count = Len(removed)

\* The entries of data["duplicates"] that pass the test of line 28.
ValidEntries ==
    IF data_kind = "ok" THEN {e \in DOMAIN entries : ValidEntry(e)} ELSE {}

\* C11: the updated report has exactly one key per valid entry, mapped to
\* the one-element list of that entry's first path, and its count is the
\* number of valid entries; a skipped entry appears nowhere in it.
C11_UpdatedReport ==
    ppc = "done" =>
        /\ DOMAIN new_json_structure.duplicates = ValidEntries
        /\ \A e \in ValidEntries :
              new_json_structure.duplicates[e] = <<entries[e].items[1]>>
        /\ new_json_structure.found_duplicates_count = Cardinality(ValidEntries)

\* A report with a skipped entry followed by a valid entry of three paths.
C11_Witness ==
    /\ ppc = "done"
    /\ Len(entries) = 2
    /\ ~ValidEntry(1)
    /\ ValidEntries = {2}
    /\ Len(entries[2].items) = 3
    /\ new_json_structure.found_duplicates_count = 1

C13_InvalidReportNoMutation ==
    data_kind # "ok" =>
        /\ ppc \in {"load", "shape", "build", "done", "fatal"}
        /\ removed = <<>>
        /\ console = <<>>
        /\ files_deleted_count = 0
        /\ kept_files_data = EmptyMap
        /\ fs = fs_start

\* A document without the "duplicates" key that names a removable file
\* after the first path of a list: the run ended and the file is still there.
C13_Witness ==
    /\ data_kind = "no_key"
    /\ ppc = "done"
    /\ \E e \in DOMAIN entries :
          /\ ValidEntry(e)
          /\ Len(entries[e].items) >= 2
          /\ fs[entries[e].items[2]] = "file"

\* The state of entry e in the per-entry machine of the prune, read off the
\* position of the script: PENDING until the loop has taken the entry and
\* counted it; VALID or INVALID while the test of line 28 decides;
\* RETAIN_FIRST once line 34 has designated the kept path; DELETE_REST in
\* the loop of lines 38-49; DONE or SKIPPED once the loop has moved on.
EntryState(e) ==
    CASE data_kind # "ok" \/ ppc \in {"load", "shape"} -> "PENDING"
      [] e < ei -> IF ValidEntry(e) THEN "DONE" ELSE "SKIPPED"
      [] e > ei -> "PENDING"
      [] ppc = "validate" -> IF ValidEntry(e) THEN "VALID" ELSE "INVALID"
      [] ppc = "retain" -> "RETAIN_FIRST"
      \* a run that ends at the warning of line 30 or inside the deletion
      \* loop leaves the entry there
      [] ppc \in {"delete", "fatal"} ->
            IF ValidEntry(e) THEN "DELETE_REST" ELSE "INVALID"
      [] OTHER -> "PENDING"

EntryMoves ==
    {<<"PENDING", "VALID">>, <<"VALID", "RETAIN_FIRST">>,
     <<"RETAIN_FIRST", "DELETE_REST">>, <<"DELETE_REST", "DONE">>,
     <<"PENDING", "INVALID">>, <<"INVALID", "SKIPPED">>}

\* Every entry stays where it is or takes one move of the machine.
ForwardOnly ==
    \A e \in DOMAIN entries :
        \/ EntryState(e)' = EntryState(e)
        \/ <<EntryState(e), EntryState(e)'>> \in EntryMoves

\* A deletion is attempted only for the entry in DELETE_REST, whose first
\* path has been designated and recorded as kept.
DeleteOnlyAfterRetain ==
    (console' # console \/ removed' # removed \/ fs' # fs) =>
        /\ EntryState(ei) = "DELETE_REST"
        /\ first_file_path = entries[ei].items[1]
        /\ ei \in DOMAIN kept_files_data
        /\ fj >= 2

AllSettled ==
    \A e \in DOMAIN entries : EntryState(e) \in {"DONE", "SKIPPED"}

\* C14: each entry only moves forward through PENDING, VALID, RETAIN_FIRST,
\* DELETE_REST, DONE or PENDING, INVALID, SKIPPED; no deletion precedes the
\* designation of the entry's first path; every entry of a well-formed
\* report eventually is DONE or SKIPPED.
C14_EntryStateMachine ==
    /\ [][ForwardOnly /\ DeleteOnlyAfterRetain]_vars
    /\ (data_kind = "ok" => <>AllSettled)

C16_BoundedConcurrency == NumRunning <= max_workers

\* The pool is full (two threads hashing) and a third path waits in the
\* queue.
C16_Witness ==
    /\ max_workers = 2
    /\ NumRunning = 2
    /\ \E i \in Futures : task[i] = "queued"

\* The position in consumed of the first result carrying fingerprint k.
FirstConsumed(k) ==
    CHOOSE n \in DOMAIN consumed :
        /\ consumed[n][1] = k
        /\ \A m \in 1..(n - 1) : consumed[m][1] # k

\* C17: on return each group lists its paths in the order in which their
\* results were consumed from as_completed, whatever the order of
\* submission; the first path of a reported duplicate group, the one the
\* prune keeps as file_list[0], is the first consumed member of the group.
C17_CompletionOrder ==
    Aggregated =>
        /\ \A k \in DOMAIN md5_dict :
              /\ md5_dict[k] = PathsWith(consumed, k)
              /\ md5_dict[k][1] = consumed[FirstConsumed(k)][2]
        /\ pc = "printed" =>
              \A k \in DOMAIN duplicates :
                  duplicates[k][1] = consumed[FirstConsumed(k)][2]

\* A reported duplicate group whose two paths are stored in the reverse of
\* their order of submission.
C17_Witness ==
    /\ pc = "printed"
    /\ \E k \in DOMAIN duplicates :
          \E i, j \in Futures :
              /\ i < j
              /\ image_files[i] # image_files[j]
              /\ duplicates[k] = <<image_files[j], image_files[i]>>

\* The sorted view lists every key once, in ascending order, each with the
\* list the map holds for it.
SortedViewOf(view, d) ==
    /\ Len(view) = Cardinality(DOMAIN d)
    /\ {view[n][1] : n \in DOMAIN view} = DOMAIN d
    /\ \A n \in DOMAIN view : view[n][2] = d[view[n][1]]
    /\ \A n, m \in DOMAIN view :
          n < m => Md5Rank(view[n][1]) < Md5Rank(view[m][1])

\* C18: once process_images has returned, no step changes the map
\* (print_results, with find_duplicates and get_sorted_md5_list, only reads
\* it), and the sorted view print_results obtains lists every fingerprint
\* once, ascending, with its unchanged path list.
C18_ReadOnlyAfterAggregation ==
    /\ [][Aggregated => md5_dict' = md5_dict]_vars
    /\ [](SortedViewOf(get_sorted_md5_list(md5_dict), md5_dict))
    /\ [](pc \in {"printed", "print_failed"} =>
             SortedViewOf(sorted_md5_list, md5_dict))

\* print_results ran on a map whose larger fingerprint was inserted first.
C18_Witness ==
    /\ pc = "printed"
    /\ Len(sorted_md5_list) = 2
    /\ consumed[1][1] = sorted_md5_list[2][1]
    /\ Len(sorted_md5_list[1][2]) = 2

\* The paths listed after the first path of a valid entry.
Candidates ==
    UNION {{entries[e].items[n] : n \in 2..Len(entries[e].items)} :
              e \in ValidEntries}

\* The paths named by the entries that fail the test of line 28.
InvalidEntryPaths ==
    UNION {Range(entries[e].items) : e \in DOMAIN entries \ ValidEntries}

\* The paths that lead nowhere once os.remove(path) has returned.
Affected(path) ==
    {q \in PrunePaths :
        os_remove([x \in PrunePaths |-> "file"], path)[q] = "absent"}

\* The paths whose state on disk this run has changed.
Touched == {p \in PrunePaths : fs[p] # fs_start[p]}

\* C19 as stated: os.remove is only called on a path listed after the first
\* path of a valid entry, and never on a path named by an invalid entry.
C19_InvalidEntryPathsUntouched ==
    /\ Range(removed) \subseteq Candidates
    /\ InvalidEntryPaths \cap Range(removed) = {}

\* C19 amended: os.remove is only called on a path listed after the first
\* path of a valid entry, the one under the deletion loop's index; a path
\* changes on disk only by such a call on it or on a path that leads to
\* the same file; a path named by an invalid entry is left untouched
\* unless a valid entry lists it, or another path to its file, after its
\* first path.
C19_RemovalsFromValidEntries ==
    /\ [](Range(removed) \subseteq Candidates)
    /\ [](Touched = UNION {Affected(q) : q \in Range(removed)})
    /\ []((InvalidEntryPaths \ UNION {Affected(q) : q \in Candidates})
             \cap Touched = {})
    /\ [][fs' # fs =>
            /\ ei \in ValidEntries
            /\ fj \in 2..Len(entries[ei].items)
            /\ fs[entries[ei].items[fj]] = "file"
            /\ removed' = Append(removed, entries[ei].items[fj])
            /\ fs' = os_remove(fs, entries[ei].items[fj])]_vars

\* A finished run that removed a file and left alone a file named by a
\* skipped entry and listed nowhere after a first path.
C19_Witness ==
    /\ ppc = "done"
    /\ removed # <<>>
    /\ \E p \in InvalidEntryPaths \ Candidates :
          /\ fs[p] = "file"
          /\ \E e \in ValidEntries : entries[e].items[1] = p

\* C20: when a run has ended, files_deleted_count is the number of files
\* the run removed from disk, one per "deleted" line of the console; a
\* missing path or a failed deletion adds nothing to it.
C20_DeletedCountExact ==
    /\ ppc \in {"done", "fatal"} => files_deleted_count = Len(removed)
    /\ files_deleted_count =
          Cardinality({n \in DOMAIN console : console[n][3] = "deleted"})

====
